---- MODULE Spec2Model ----
(***************************************************************************)
(* Model of the NVIDIA back end of transformer-rs: the rolling window of   *)
(* layer weights (LayersParameters), the transfer stream and the per-call  *)
(* compute stream, and the control flow of NvidiaTransformer::decode.      *)
(*                                                                         *)
(* The kernel launches and the parameter files are studied as functions of *)
(* their arguments, in specifications of their own.                        *)
(*                                                                         *)
(* A stream is the sequence of operations submitted to it and not yet      *)
(* completed; the head of a stream is the operation the device is          *)
(* executing, and a device step completes it.  Streams are ordered with    *)
(* respect to each other only by events: a record completes its event, a   *)
(* wait cannot complete before its event has.                              *)
(***************************************************************************)
EXTENDS Integers, Sequences, FiniteSets, TLC

VARIABLES
    nlayers,    \* host.num_hidden_layers()
    layers,     \* LayersParameters.layers: the slots, each [layer, sync_event]
    current,    \* LayersParameters.current
    model_event,\* ModelParameters.sync_event
    dev,        \* device memory of the slots: dev[slot][tensor] = layer whose weights it holds
    transfer,   \* the transfer stream (NvidiaTransformer.transfer)
    compute,    \* compute[c]: the compute stream created by the c-th decode call
    done,       \* events that have completed
    killed,     \* events destroyed by LayerParameter::load
    next_event, \* next fresh event
    pc,         \* where the host is inside decode
    calls,      \* number of decode calls started
    layer,      \* loop variable of decode's layer loop
    params,     \* slot returned by the last sync
    requests,   \* the batch of the running call, after the sort
    result,     \* what the last call returned
    submitted,  \* history: operations the running call submitted to its compute stream
    staged,     \* history: per slot, the layer the last load asked for and the syncs since
    recorded,   \* history: per slot, the event recorded after the last copies into it
    reclaimed,  \* transient buffers whose memory the device has reclaimed: <<call, buffer>>
    cache,      \* cache[id][l]: the k and v cache of request id for layer l, row by row
    failed,     \* the step of decode that rejected a request or a batch, or "none"
    arg,        \* the arguments of the function under study (kernel launch, save)
    ret         \* what the function has produced so far

vars == <<nlayers, layers, current, model_event, dev, transfer, compute, done, killed,
          next_event, pc, calls, layer, params, requests, result, submitted, staged,
          recorded, reclaimed, cache, failed, arg, ret>>

(***************************************************************************)
(* Bounds.                                                                 *)
(***************************************************************************)
\* Largest number of layers of a model.
MaxLayers == 3
\* Decode calls on one engine when the device completes each operation at once.
MaxCalls == 2
\* Decode calls on one engine when the device runs behind the host.
MaxAsyncCalls == 1

\* Largest number of requests of a batch, largest seq_len and largest pos of a
\* request, and max_position_embeddings of the model, where batches are enumerated.
MaxReq == 3
MaxSeqLen == 2
MaxPos == 1
MaxPosition == 2

\* Largest number of attention heads and largest head dimension of a model, where
\* kernel launches are enumerated.
MaxHeads == 4
MaxHeadDim == 4

\* Largest hidden size of a model whose parameters are saved.
MaxHidden == 2

\* The six per-layer tensors, in the order LayerParameter::load copies them.
NumTensors == 6
None == 0 - 1

Min(a, b) == IF a < b THEN a ELSE b

(***************************************************************************)
(* Requests.  A request is [id, seq_len, pos, decode].                     *)
(***************************************************************************)
Req(id, seq_len, pos, decode) ==
    [id |-> id, seq_len |-> seq_len, pos |-> pos, decode |-> decode]

\* Batches a caller submits: the end-to-end scenarios and the all-prefill batches.
ScenarioBatches ==
    { << Req(1, 3, 0, TRUE) >>,
      << Req(1, 2, 0, TRUE), Req(2, 1, 7, TRUE) >>,
      << Req(1, 2, 0, TRUE), Req(2, 2, 0, FALSE), Req(3, 1, 5, TRUE) >>,
      << Req(1, 3, 0, FALSE) >>,
      << Req(1, 2, 0, FALSE), Req(2, 1, 4, TRUE) >> }

\* A decode call without requests.
EmptyBatch == <<>>

\* The batches of the asynchronous runs: one that takes the sampling path, has a
\* row to move and a request that does not decode, and one that returns vec![]
\* although a request decodes.
AsyncBatches ==
    { << Req(1, 2, 0, TRUE), Req(2, 1, 1, FALSE) >>,
      << Req(1, 2, 0, FALSE), Req(2, 1, 1, TRUE) >> }

PurelyDecode(r) == r.seq_len = 1

\* Mutant of KeyLe: the key is compared in descending order.
KeyGe(a, b) == PurelyDecode(b) => PurelyDecode(a)

\* false < true
KeyLe(a, b) == PurelyDecode(a) => PurelyDecode(b)

Perms(n) == { f \in [1..n -> 1..n] : \A i, j \in 1..n : i # j => f[i] # f[j] }

\* requests.sort_unstable_by_key(Request::purely_decode): every order of the batch
\* that is ascending in the key (the order of equal keys is not fixed).
SortUnstableByKey(reqs) ==
    { s \in { [i \in 1..Len(reqs) |-> reqs[f[i]]] : f \in Perms(Len(reqs)) } :
        \A i \in 1..(Len(reqs) - 1) : KeyLe(s[i], s[i + 1]) }

(***************************************************************************)
(* Stream operations.                                                      *)
(***************************************************************************)
Op(k, slot, t, lay, ev, call) ==
    [k |-> k, slot |-> slot, t |-> t, layer |-> lay, ev |-> ev, call |-> call]

H2D(slot, t, lay, call) == Op("h2d", slot, t, lay, None, call)
Record(ev, slot, call) == Op("record", slot, None, None, ev, call)
Wait(ev, slot, call) == Op("wait", slot, None, None, ev, call)

\* Mutant of CopyLayer: the last tensor is not copied.
CopyLayerSkipsLast(slot, lay, call) ==
    [t \in 1..(NumTensors - 1) |-> H2D(slot, t, lay, call)]

\* The six memcpy_h2d of one layer's tensors into a slot.
CopyLayer(slot, lay, call) == [t \in 1..NumTensors |-> H2D(slot, t, lay, call)]

\* Tensors a kernel group reads from the slot it was given.
BeforeAttReads == {1, 2}
AfterAttReads == {3, 4, 5, 6}
Reads(op) ==
    IF op.k = "before_att" THEN BeforeAttReads
    ELSE IF op.k = "after_att" THEN AfterAttReads
    ELSE {}

(***************************************************************************)
(* Transient device memory of a decode call.  A Storage is allocated        *)
(* asynchronously on a stream and released asynchronously on the same       *)
(* stream when it goes out of scope.                                        *)
(***************************************************************************)
Malloc(bufs, call) ==
    [k |-> "malloc", slot |-> None, t |-> None, layer |-> None, ev |-> None,
     call |-> call, bufs |-> bufs]

Free(bufs, call) ==
    [k |-> "free", slot |-> None, t |-> None, layer |-> None, ev |-> None,
     call |-> call, bufs |-> bufs]

\* The buffers of a LayerBuffer.
LayerBufferFields == {"qkv", "q_buf", "att_buf", "gate_up"}

\* The stream each transient tensor is allocated on: x0 in token_embed and logits
\* in logits take the compute stream, x1, the layer buffers and pos the transfer stream.
AllocStream(buf) == IF buf \in {"x0", "logits"} THEN "compute" ELSE "transfer"

\* The operations of a sequence of allocations or releases that go to stream s.
OnStream(s, ops) == SelectSeq(ops, LAMBDA op : \A b \in op.bufs : AllocStream(b) = s)

\* The tensors allocated by lines 73-79, one after the other with the same stream
\* argument: a stream runs such a run of allocations, or of releases, as one operation.
Scratch == {"x1"} \cup LayerBufferFields \cup {"pos"}

\* Lines 72-79: the allocations at the start of decode, in program order.
Allocs(call) == << Malloc({"x0"}, call), Malloc(Scratch, call) >>

\* The locals pos, buf and x1 of decode's closure go out of scope together.
Drops(call) == << Free(Scratch, call) >>

\* The transient buffers an operation reads or writes.
Uses(op) ==
    CASE op.k = "gather" -> {"x0"}
      [] op.k = "h2d_pos" -> {"pos"}
      [] op.k = "before_att" -> {"x0", "x1", "qkv", "pos"}
      [] op.k = "attention" -> {"qkv", "x1", "q_buf", "att_buf"}
      [] op.k = "after_att" -> {"x0", "x1", "gate_up"}
      [] op.k = "d2d" -> {"x0"}
      [] op.k = "model_norm" -> {"x0"}
      [] op.k = "lm_head" -> {"x0", "logits"}
      [] OTHER -> {}

(***************************************************************************)
(* LayersParameters.                                                       *)
(***************************************************************************)
W == Len(layers)

LoadLayers(preload_layers, l) == Min(preload_layers, l)

\* Mutant of LoadSlot: the step W - 1 is forgotten.
LoadSlotAtCursor(cur, w) == cur % w

LoadSlot(cur, w) == (cur + (w - 1)) % w

\* Mutant of LoadLayer: load stages one layer too far ahead.
LoadLayerNext(l, w, n) == (l + w) % n

LoadLayer(l, w, n) == (l + (w - 1)) % n

\* Mutant of SyncNext: the cursor skips a slot.
SyncNextSkips(i, w) == (i + 2) % w

\* Mutant of SyncNext: the cursor does not wrap around the window.
SyncNextUnwrapped(i, w) == i + 1

SyncNext(i, w) == (i + 1) % w

\* Mutant of Holds: the early return is missing.
HoldsNever(slot, lay) == FALSE

\* LayerParameter::load returns early when the slot already holds the layer.
Holds(slot, lay) == slot.layer = lay

\* Mutant of Refilled: the new event is not stored in the slot.
RefilledKeepsEvent(slot, lay, ev) == [layer |-> lay, sync_event |-> slot.sync_event]

\* LayerParameter::load, lines 191-193: the slot after a refill.
Refilled(slot, lay, ev) == [layer |-> lay, sync_event |-> ev]

\* Mutant of SyncOps: sync returns the slot without the wait.
SyncOpsNoWait(slot, i, call) == <<>>

\* LayersParameters::sync, line 77: what sync submits to the compute stream.
SyncOps(slot, i, call) == << Wait(slot.sync_event, i, call) >>

(***************************************************************************)
(* The state after NvidiaTransformer::new.                                 *)
(***************************************************************************)
RECURSIVE Concat(_)
Concat(ss) == IF ss = <<>> THEN <<>> ELSE Head(ss) \o Concat(Tail(ss))

\* ModelParameters::new: model_norm and lm_head, then the event (event 0).
ModelUpload == << Op("h2d_model", None, 1, None, None, 0),
                  Op("h2d_model", None, 2, None, None, 0),
                  Record(0, None, 0) >>

\* LayerParameter::new for slot i (layer i): six copies, then the event i + 1.
SlotUpload(i) == CopyLayer(i, i, 0) \o << Record(i + 1, i, 0) >>

NoResult == [path |-> "none", ids |-> <<>>, rows |-> <<>>]

Init ==
    \E l \in 1..MaxLayers, preload_layers \in 1..(MaxLayers + 1) :
        LET w == LoadLayers(preload_layers, l) IN
        /\ nlayers = l
        /\ layers = [i \in 1..w |-> [layer |-> i - 1, sync_event |-> i]]
        /\ current = 0
        /\ model_event = 0
        /\ dev = [i \in 1..w |-> [t \in 1..NumTensors |-> None]]
        /\ transfer = ModelUpload \o Concat([i \in 1..w |-> SlotUpload(i - 1)])
        /\ compute = [c \in 1..MaxCalls |-> <<>>]
        /\ done = {}
        /\ killed = {}
        /\ next_event = w + 1
        /\ pc = "idle"
        /\ calls = 0
        /\ layer = 0
        /\ params = None
        /\ requests = <<>>
        /\ result = NoResult
        /\ submitted = <<>>
        /\ staged = [i \in 1..w |-> [layer |-> None, syncs |-> None]]
        /\ recorded = [i \in 1..w |-> i]
        /\ reclaimed = {}
        /\ cache = <<>>
        /\ failed = "none"
        /\ arg = <<>>
        /\ ret = <<>>

(***************************************************************************)
(* Host: NvidiaTransformer::new_cache.                                     *)
(***************************************************************************)
\* A row of a cache: row `row` of the packed k or v of a layer.
CacheRow(tensor, lay, row) == [tensor |-> tensor, layer |-> lay, row |-> row]

\* A row of a cache that this pass has not written.
Unwritten == CacheRow("unwritten", None, None)

\* The value new_cache returns: per layer a k and a v cache of mp rows, mp the
\* max_position_embeddings of the engine.
NewCache(l, mp) ==
    [lay \in 1..l |-> [k |-> [p \in 1..mp |-> Unwritten],
                       v |-> [p \in 1..mp |-> Unwritten]]]

\* Line 55: stream.malloc of the k or the v cache of layer lay; new_cache belongs
\* to no call of decode.
CacheMalloc(tensor, lay) ==
    [k |-> "malloc", slot |-> None, t |-> None, layer |-> lay, ev |-> None,
     call |-> None, bufs |-> {tensor}]

\* What new_cache submits to the transfer stream: k then v, layer by layer.
CacheMallocs(l) ==
    Concat([i \in 1..l |-> << CacheMalloc("k_cache", i - 1),
                              CacheMalloc("v_cache", i - 1) >>])

\* The caller is between two calls of decode.
BetweenCalls == pc \in {"idle", "batch"}

\* new_cache: the caches are allocated on the transfer stream and handed to the
\* caller, who owns them from then on; cache holds the ones handed out so far.
NewCacheCall(limit, mp) ==
    /\ BetweenCalls
    /\ Len(cache) < limit
    /\ cache' = Append(cache, NewCache(nlayers, mp))
    /\ transfer' = transfer \o CacheMallocs(nlayers)
    /\ UNCHANGED <<arg, ret, failed, reclaimed, nlayers, layers, current, model_event, dev,
                   compute, done, killed, next_event, pc, calls, layer, params, requests,
                   result, submitted, staged, recorded>>

\* The caches a caller needs for the batches it submits: one per request.
RECURSIVE Caches(_)
Caches(batches) ==
    IF batches = {} THEN 0
    ELSE LET b == CHOOSE x \in batches : TRUE
             n == Caches(batches \ {b})
         IN IF Len(b) > n THEN Len(b) ELSE n

\* Every request of the batch refers to a cache new_cache returned.
HasCaches(batch) == \A i \in DOMAIN batch : batch[i].id \in DOMAIN cache

(***************************************************************************)
(* NvidiaTransformer::attention: the loop over the requests of the batch.  *)
(***************************************************************************)
\* The sum of seq_len over a batch (nt), and over the requests before the i-th (req).
RECURSIVE SumSeqLen(_)
SumSeqLen(reqs) == IF reqs = <<>> THEN 0 ELSE Head(reqs).seq_len + SumSeqLen(Tail(reqs))

\* Request::att_len
AttLen(r) == r.pos + r.seq_len

\* Mutant of SliceInBounds: a slice is never rejected.
SliceUnchecked(from, take, extent) == TRUE

\* Tensor::slice: the bounds of a slice lie within the extent of the axis.
SliceInBounds(from, take, extent) == from + take <= extent

\* FusedSoftmax::launch: the attention length is at most max_position_embeddings.
FusedSoftmaxAccepts(k, mp) == k <= mp

\* Mutant of Reform: one row more than the request has is written.
ReformOverrun(rows, tensor, lay, req, r) ==
    [p \in 1..Len(rows) |->
        IF p - 1 >= r.pos /\ p - 1 < r.pos + r.seq_len + 1
        THEN CacheRow(tensor, lay, req + (p - 1 - r.pos))
        ELSE rows[p]]

\* Mutant of Reform: the rows go to the start of the cache, not to position pos.
ReformAtStart(rows, tensor, lay, req, r) ==
    [p \in 1..Len(rows) |->
        IF p - 1 < r.seq_len THEN CacheRow(tensor, lay, req + (p - 1)) ELSE rows[p]]

\* reform.launch(&mut k_cat, &k): rows [req, req + seq_len) of the packed tensor of
\* the layer go to rows [pos, pos + seq_len) of the request's cache.
Reform(rows, tensor, lay, req, r) ==
    [p \in 1..Len(rows) |->
        IF p - 1 >= r.pos /\ p - 1 < r.pos + r.seq_len
        THEN CacheRow(tensor, lay, req + (p - 1 - r.pos))
        ELSE rows[p]]

\* Mutant of NextReq: the row offset does not advance.
NextReqStays(req, seq_len) == req

\* Line 294: req += seq_len.
NextReq(req, seq_len) == req + seq_len

\* A slice along the token axis: [from, from + take).
Slice(from, take) == [from |-> from, take |-> take]

\* What one iteration of the attention loop launches for request r: the rows of the
\* packed q, k, v it reads and of o it writes (req_slice), the cache it uses and
\* the rows of it that it writes (cat_slice) and reads (att_slice).
AttentionLaunch(r, req, lay) ==
    [id |-> r.id, layer |-> lay,
     req_slice |-> Slice(req, r.seq_len),
     cat_slice |-> Slice(r.pos, r.seq_len),
     att_slice |-> Slice(0, AttLen(r)),
     cache |-> r.id]

\* The rows of the cache of request r for a layer: new_cache gave it
\* max_position_embeddings of them.
CacheRows(c, r, lay) == Len(c[r.id][lay + 1].k)

\* The loop of attention over the requests of the batch, for one layer: the cache
\* after it, the step that rejected a request ("none" when none did), and what
\* the iterations that completed launched.
RECURSIVE AttentionLoop(_, _, _, _, _)
AttentionLoop(reqs, req, nt, lay, c) ==
    IF reqs = <<>> THEN [cache |-> c, failed |-> "none", launched |-> <<>>]
    ELSE LET r == Head(reqs)
             mp == CacheRows(c, r, lay)
             c1 == [c EXCEPT ![r.id][lay + 1] =
                       [k |-> Reform(@.k, "k", lay, req, r),
                        v |-> Reform(@.v, "v", lay, req, r)]]
         IN IF ~SliceInBounds(req, r.seq_len, nt)
            THEN [cache |-> c, failed |-> "req_slice", launched |-> <<>>]
            ELSE IF ~SliceInBounds(r.pos, r.seq_len, mp)
            THEN [cache |-> c, failed |-> "cat_slice", launched |-> <<>>]
            ELSE IF ~SliceInBounds(0, AttLen(r), mp)
            THEN [cache |-> c1, failed |-> "att_slice", launched |-> <<>>]
            ELSE IF ~FusedSoftmaxAccepts(AttLen(r), mp)
            THEN [cache |-> c1, failed |-> "fused_softmax", launched |-> <<>>]
            ELSE LET rest == AttentionLoop(Tail(reqs), NextReq(req, r.seq_len),
                                           nt, lay, c1)
                 IN [rest EXCEPT !.launched = << AttentionLaunch(r, req, lay) >> \o @]

\* The longest attention a batch of the set asks for.
RECURSIVE Positions(_)
Positions(batches) ==
    IF batches = {} THEN 0
    ELSE LET b == CHOOSE x \in batches : TRUE
             n == Positions(batches \ {b})
             m == IF b = <<>> THEN 0
                  ELSE CHOOSE a \in { AttLen(b[i]) : i \in DOMAIN b } :
                           \A i \in DOMAIN b : AttLen(b[i]) <= a
         IN IF m > n THEN m ELSE n

\* A request whose rows end beyond the last row of its cache, on an engine whose
\* max_position_embeddings is the longest attention of the scenarios.
OverflowBatch == << Req(1, 2, Positions(ScenarioBatches) - 1, TRUE) >>

\* The batches of the runs on a blocking device.
BlockingBatches == ScenarioBatches \cup {EmptyBatch, OverflowBatch}

(***************************************************************************)
(* Host: NvidiaTransformer::decode.                                        *)
(***************************************************************************)
Submit(ops) ==
    /\ compute' = [compute EXCEPT ![calls] = @ \o ops]
    /\ submitted' = submitted \o ops

\* Lines 66-82: sort, token_embed on the new compute stream, the pos upload on the
\* transfer stream, and the compute stream's wait for it.
DecodeBegin(limit, batches) ==
    /\ pc = "idle"
    /\ calls < limit
    /\ \E batch \in batches :
           HasCaches(batch) /\ requests' \in SortUnstableByKey(batch)
    /\ calls' = calls + 1
    /\ LET ops == OnStream("compute", Allocs(calls + 1))
                  \o << Op("gather", None, None, None, None, calls + 1),
                        Wait(next_event, None, calls + 1) >> IN
       /\ compute' = [compute EXCEPT ![calls + 1] = ops]
       /\ submitted' = ops
    /\ transfer' = transfer \o OnStream("transfer", Allocs(calls + 1))
                             \o << Op("h2d_pos", None, None, None, None, calls + 1),
                                   Record(next_event, None, calls + 1) >>
    /\ next_event' = next_event + 1
    /\ layer' = 0
    /\ pc' = "load"
    /\ result' = NoResult
    /\ UNCHANGED <<arg, ret, cache, failed, reclaimed, nlayers, layers, current, model_event, dev,
                   done, killed, params, staged, recorded>>

\* LayersParameters::load, with LayerParameter::load on the slot it picks.
Load ==
    /\ pc = "load"
    /\ LET i == LoadSlot(current, W)
           lay == LoadLayer(layer, W, nlayers)
       IN /\ IF Holds(layers[i + 1], lay)
             THEN UNCHANGED <<layers, transfer, killed, next_event, recorded>>
             ELSE /\ transfer' = transfer \o CopyLayer(i, lay, calls)
                                          \o << Record(next_event, i, calls) >>
                  /\ killed' = killed \cup {layers[i + 1].sync_event}
                  /\ layers' = [layers EXCEPT ![i + 1] =
                                    Refilled(layers[i + 1], lay, next_event)]
                  /\ next_event' = next_event + 1
                  /\ recorded' = [recorded EXCEPT ![i + 1] = next_event]
          /\ staged' = [staged EXCEPT ![i + 1] = [layer |-> lay, syncs |-> 0]]
    /\ pc' = "sync"
    /\ UNCHANGED <<arg, ret, cache, failed, reclaimed, nlayers, current, model_event, dev, compute,
                   done, calls, layer, params, requests, result, submitted>>

\* LayersParameters::sync: the cursor moves, the assertion, the wait.  A failed
\* assertion unwinds through decode, whose locals go out of scope.
Sync ==
    /\ pc = "sync"
    /\ LET i == current
           drops == Drops(calls) \o << Free({"x0"}, calls) >>
       IN
       /\ current' = SyncNext(i, W)
       /\ params' = i
       /\ staged' = [j \in 1..W |->
                        IF staged[j].syncs = None THEN staged[j]
                        ELSE [staged[j] EXCEPT !.syncs = @ + 1]]
       /\ IF layers[i + 1].layer = layer
          THEN /\ Submit(SyncOps(layers[i + 1], i, calls))
               /\ pc' = "layer"
               /\ UNCHANGED transfer
          ELSE /\ pc' = "panic"
               /\ transfer' = transfer \o OnStream("transfer", drops)
               /\ compute' = [compute EXCEPT ![calls] = @ \o OnStream("compute", drops)]
               /\ UNCHANGED submitted
    /\ UNCHANGED <<arg, ret, cache, failed, reclaimed, nlayers, layers, model_event, dev,
                   done, killed, next_event, calls, layer, requests, result, recorded>>

\* The launches of attention for one layer, a being what the loop over the
\* requests did: it launches for the requests it completed, so an empty batch, and
\* a batch whose first request is rejected, launch nothing.
Attention(a, lay, call) ==
    IF a.launched = <<>> THEN <<>> ELSE << Op("attention", None, None, lay, None, call) >>

\* before_att, attention, after_att of one layer, on the slot sync returned.  The
\* reform launches of attention write the requests' caches: cache holds the rows
\* as the launches submitted so far leave them.  A request attention rejects
\* (a slice beyond the rows of its cache) ends the call there: after_att is
\* not reached and decode's locals go out of scope.
LayerBody ==
    /\ pc = "layer"
    /\ LET a == AttentionLoop(requests, 0, SumSeqLen(requests), layer, cache)
           ops == << Op("before_att", params, None, layer, None, calls) >>
                  \o Attention(a, layer, calls)
           drops == Drops(calls) \o << Free({"x0"}, calls) >>
       IN
       /\ cache' = a.cache
       /\ failed' = a.failed
       /\ IF a.failed # "none"
          THEN /\ pc' = "failed"
               /\ submitted' = submitted \o ops
               /\ compute' = [compute EXCEPT ![calls] =
                                 @ \o ops \o OnStream("compute", drops)]
               /\ transfer' = transfer \o OnStream("transfer", drops)
               /\ UNCHANGED layer
          ELSE /\ Submit(ops \o << Op("after_att", params, None, layer, None, calls) >>)
               /\ layer' = layer + 1
               /\ pc' = IF layer + 1 < nlayers THEN "load" ELSE "tail"
               /\ UNCHANGED transfer
    /\ UNCHANGED <<arg, ret, reclaimed, nlayers, layers, current, model_event, dev,
                   done, killed, next_event, calls, params, requests, result,
                   staged, recorded>>

(***************************************************************************)
(* move_decode and the tail of decode.                                     *)
(***************************************************************************)
D2D(dst, src, call) ==
    [k |-> "d2d", slot |-> None, t |-> None, layer |-> None, ev |-> None, call |-> call,
     dst |-> dst, src |-> src]

\* Mutant of MoveDecodeScan: dst advances for every request, decoding or not.
RECURSIVE MoveDecodeScanAll(_, _, _, _)
MoveDecodeScanAll(others, src, dst, copies) ==
    IF others = <<>> THEN [dst |-> dst, copies |-> copies]
    ELSE LET src1 == src + Head(others).seq_len
         IN MoveDecodeScanAll(Tail(others), src1, dst + 1,
                              IF dst + 1 < src1
                              THEN Append(copies, <<dst + 1, src1>>)
                              ELSE copies)

\* The loop of move_decode over the requests after the first.
RECURSIVE MoveDecodeScan(_, _, _, _)
MoveDecodeScan(others, src, dst, copies) ==
    IF others = <<>> THEN [dst |-> dst, copies |-> copies]
    ELSE LET r == Head(others)
             src1 == src + r.seq_len
         IN IF r.decode
            THEN MoveDecodeScan(Tail(others), src1, dst + 1,
                                IF dst + 1 < src1
                                THEN Append(copies, <<dst + 1, src1>>)
                                ELSE copies)
            ELSE MoveDecodeScan(Tail(others), src1, dst, copies)

\* move_decode: the row copies it issues and the slice [begin, end) it returns.
MoveDecode(reqs) ==
    LET begin == Head(reqs).seq_len - 1
        scan == MoveDecodeScan(Tail(reqs), begin, begin, <<>>)
    IN [begin |-> begin, end |-> scan.dst + 1, copies |-> scan.copies]

\* The value of src after the first k requests behind the head were scanned.
ScanSrc(reqs, k) == Head(reqs).seq_len - 1 + SumSeqLen(SubSeq(Tail(reqs), 1, k))

\* The value of dst after the first k requests behind the head were scanned.
ScanDst(reqs, k) ==
    MoveDecodeScan(SubSeq(Tail(reqs), 1, k), Head(reqs).seq_len - 1,
                   Head(reqs).seq_len - 1, <<>>).dst

\* Rows of x0 after token_embed and the layers: row of token t of request id.
RECURSIVE PackedRows(_)
PackedRows(reqs) ==
    IF reqs = <<>> THEN <<>>
    ELSE [t \in 1..Head(reqs).seq_len |-> [id |-> Head(reqs).id, t |-> t - 1]]
         \o PackedRows(Tail(reqs))

RECURSIVE ApplyCopies(_, _)
ApplyCopies(x, copies) ==
    IF copies = <<>> THEN x
    ELSE ApplyCopies([x EXCEPT ![Head(copies)[1] + 1] = x[Head(copies)[2] + 1]],
                     Tail(copies))

\* The rows of the slice move_decode returns, once its copies have run.
DecodeRows(reqs) ==
    LET m == MoveDecode(reqs) IN
    SubSeq(ApplyCopies(PackedRows(reqs), m.copies), m.begin + 1, m.end)

\* Line 112: the ids handed to the sampler.
SampleIds(reqs) == [i \in 1..Len(reqs) |-> reqs[i].id]

\* Mutant of IndexPanics: an index past the end is not detected.
IndexUnchecked(reqs, i) == FALSE

\* requests[i]: indexing a Vec past its end panics.
IndexPanics(reqs, i) == i >= Len(reqs)

\* Line 110: the branch decode takes after the layer loop.
TakesSamplePath(reqs) == reqs[1].decode

\* Lines 110-116: move_decode and logits are submitted, or the call returns vec![].
\* logits allocates its result, and owns x: x0 is released when logits returns.
\* On the vec![] path the call returns at once and its locals go out of scope,
\* as they do when requests[0] panics on a batch without requests.
DecodeTail ==
    /\ pc = "tail"
    /\ IF IndexPanics(requests, 0)
       THEN /\ pc' = "failed"
            /\ failed' = "requests[0]"
            /\ LET drops == Drops(calls) \o << Free({"x0"}, calls) >> IN
               /\ transfer' = transfer \o OnStream("transfer", drops)
               /\ compute' = [compute EXCEPT ![calls] = @ \o OnStream("compute", drops)]
            /\ UNCHANGED <<result, submitted>>
       ELSE IF requests # <<>> /\ TakesSamplePath(requests)
       THEN /\ LET m == MoveDecode(requests) IN
               Submit([j \in 1..Len(m.copies) |->
                          D2D(m.copies[j][1], m.copies[j][2], calls)]
                      \o << Malloc({"logits"}, calls),
                            Wait(model_event, None, calls),
                            Op("model_norm", None, None, None, None, calls),
                            Op("lm_head", None, None, None, None, calls),
                            Free({"x0"}, calls) >>)
            /\ pc' = "sample"
            /\ UNCHANGED <<failed, result, transfer>>
       ELSE /\ result' = [path |-> "empty", ids |-> <<>>, rows |-> <<>>]
            /\ pc' = "idle"
            /\ LET drops == Drops(calls) \o << Free({"x0"}, calls) >> IN
               /\ transfer' = transfer \o OnStream("transfer", drops)
               /\ compute' = [compute EXCEPT ![calls] = @ \o OnStream("compute", drops)]
            /\ UNCHANGED <<failed, submitted>>
    /\ UNCHANGED <<arg, ret, cache, reclaimed, nlayers, layers, current, model_event, dev,
                   done, killed, next_event, calls, layer, params, requests, staged,
                   recorded>>

\* Sample::sample reads the logits once the compute stream is synchronized; the
\* sampler owns the logits.  Then decode returns and its locals go out of scope.
Sample ==
    /\ pc = "sample"
    /\ compute[calls] = <<>>
    /\ result' = [path |-> "sample", ids |-> SampleIds(requests),
                  rows |-> DecodeRows(requests)]
    /\ pc' = "idle"
    /\ transfer' = transfer \o OnStream("transfer", Drops(calls))
    /\ compute' = [compute EXCEPT ![calls] = @ \o OnStream("compute", Drops(calls))]
    /\ UNCHANGED <<arg, ret, cache, failed, reclaimed, nlayers, layers, current, model_event, dev,
                   done, killed, next_event, calls, layer, params, requests, submitted,
                   staged, recorded>>

(***************************************************************************)
(* Device: the streams complete their operations in submission order.      *)
(***************************************************************************)
TransferStep ==
    /\ transfer # <<>>
    /\ LET op == Head(transfer) IN
       /\ dev' = IF op.k = "h2d"
                 THEN [dev EXCEPT ![op.slot + 1][op.t] = op.layer]
                 ELSE dev
       /\ done' = IF op.k = "record" THEN done \cup {op.ev} ELSE done
       /\ reclaimed' = IF op.k = "free"
                       THEN reclaimed \cup { <<op.call, b>> : b \in op.bufs }
                       ELSE reclaimed
    /\ transfer' = Tail(transfer)
    /\ UNCHANGED <<arg, ret, cache, failed, nlayers, layers, current, model_event, compute, killed,
                   next_event, pc, calls, layer, params, requests, result, submitted,
                   staged, recorded>>

ComputeStep ==
    \E c \in 1..MaxCalls :
        /\ compute[c] # <<>>
        /\ Head(compute[c]).k = "wait" => Head(compute[c]).ev \in done
        /\ compute' = [compute EXCEPT ![c] = Tail(@)]
        /\ reclaimed' = IF Head(compute[c]).k = "free"
                        THEN reclaimed \cup { <<c, b>> : b \in Head(compute[c]).bufs }
                        ELSE reclaimed
        /\ UNCHANGED <<arg, ret, cache, failed, nlayers, layers, current, model_event, dev, transfer,
                       done, killed, next_event, pc, calls, layer, params, requests,
                       result, submitted, staged, recorded>>

Host(limit, batches) ==
    \/ NewCacheCall(Caches(batches), Positions(batches))
    \/ DecodeBegin(limit, batches)
    \/ Load
    \/ Sync
    \/ LayerBody
    \/ DecodeTail
    \/ Sample

Device == TransferStep \/ ComputeStep

\* The host submits without blocking; the device runs the streams at its own pace.
\* The caller creates the caches of its requests with new_cache before it hands
\* them to decode.
Next == Host(MaxAsyncCalls, AsyncBatches) \/ Device

Spec == Init /\ [][Next]_vars

\* The same program on a device that completes every submitted operation before
\* the host submits the next one (blocking launches): the host's own state, which
\* never reads the device's progress before Sample, goes through the same values.
\* Between two calls of decode the caller may create caches with new_cache.
DeviceIdle == transfer = <<>> /\ \A c \in 1..MaxCalls : compute[c] = <<>>

NextBlocking ==
    \/ DeviceIdle /\ NewCacheCall(Caches(BlockingBatches), Positions(ScenarioBatches))
    \/ DeviceIdle /\ DecodeBegin(MaxCalls, BlockingBatches)
    \/ DeviceIdle /\ Load
    \/ DeviceIdle /\ Sync
    \/ DeviceIdle /\ LayerBody
    \/ DeviceIdle /\ DecodeTail
    \/ DeviceIdle /\ Sample
    \/ TransferStep
    \/ ComputeStep

SpecBlocking == Init /\ [][NextBlocking]_vars

(***************************************************************************)
(* The data path of decode on its own: the sort, the attention loop of      *)
(* every layer on the requests' caches, and move_decode, for every batch    *)
(* within the bounds.  The window is fully resident and the device idle;    *)
(* the caller first creates the cache of each request with new_cache.      *)
(***************************************************************************)
\* What a request of an enumerated batch can be: <<seq_len, pos, decode>>.
RequestShapes == (1..MaxSeqLen) \X {0, MaxPos} \X BOOLEAN

\* An order on the shapes, the purely decoding ones first.
ShapeRank(s) == (s[1] * (MaxPos + 1) + s[2]) * 2 + (IF s[3] THEN 1 ELSE 0)

\* The batch of n requests of shapes f; the id of a request is its place in it.
BatchOf(n, f) == [i \in 1..n |-> Req(i, f[i][1], f[i][2], f[i][3])]

\* Batches that differ only in the order the caller numbers the requests are
\* enumerated once, with the shapes in ascending order: the sort has work to do.
InitBatch ==
    \E n \in 1..MaxReq : \E f \in [1..n -> RequestShapes] :
        LET l == MaxLayers
            batch == BatchOf(n, f)
        IN
        /\ \A i \in 1..(n - 1) : ShapeRank(f[i]) <= ShapeRank(f[i + 1])
        /\ nlayers = l
        /\ layers = [i \in 1..l |-> [layer |-> i - 1, sync_event |-> i]]
        /\ current = 0
        /\ model_event = 0
        /\ dev = [i \in 1..l |-> [t \in 1..NumTensors |-> i - 1]]
        /\ transfer = <<>>
        /\ compute = [c \in 1..MaxCalls |-> <<>>]
        /\ done = 0..l
        /\ killed = {}
        /\ next_event = l + 1
        /\ pc = "batch"
        /\ calls = 0
        /\ layer = 0
        /\ params = None
        /\ requests = batch
        /\ result = NoResult
        /\ submitted = <<>>
        /\ staged = [i \in 1..l |-> [layer |-> None, syncs |-> None]]
        /\ recorded = [i \in 1..l |-> i]
        /\ reclaimed = {}
        /\ cache = <<>>
        /\ failed = "none"
        /\ arg = <<>>
        /\ ret = <<>>

\* Line 66.
BatchSort ==
    /\ pc = "batch"
    /\ requests' \in SortUnstableByKey(requests)
    /\ layer' = 0
    /\ pc' = "attention"
    /\ UNCHANGED <<arg, ret, cache, failed, reclaimed, nlayers, layers, current, model_event, dev,
                   transfer, compute, done, killed, next_event, calls, params, result,
                   submitted, staged, recorded>>

\* attention of one layer; a rejected request ends the call.  submitted holds
\* what the loop launched for the layer.
BatchAttention ==
    /\ pc = "attention"
    /\ LET a == AttentionLoop(requests, 0, SumSeqLen(requests), layer, cache) IN
       /\ cache' = a.cache
       /\ failed' = a.failed
       /\ submitted' = a.launched
       /\ IF a.failed # "none"
          THEN pc' = "failed" /\ UNCHANGED layer
          ELSE /\ layer' = layer + 1
               /\ pc' = IF layer + 1 < nlayers THEN "attention" ELSE "move"
    /\ UNCHANGED <<arg, ret, reclaimed, nlayers, layers, current, model_event, dev, transfer,
                   compute, done, killed, next_event, calls, params, requests, result,
                   staged, recorded>>

\* Lines 110-116 on the data: the rows move_decode leaves in the slice it returns.
BatchMoveDecode ==
    /\ pc = "move"
    /\ result' = IF TakesSamplePath(requests)
                 THEN [path |-> "sample", ids |-> SampleIds(requests),
                       rows |-> DecodeRows(requests)]
                 ELSE [path |-> "empty", ids |-> <<>>, rows |-> <<>>]
    /\ pc' = "done"
    /\ UNCHANGED <<arg, ret, cache, failed, reclaimed, nlayers, layers, current, model_event, dev,
                   transfer, compute, done, killed, next_event, calls, layer, params,
                   requests, submitted, staged, recorded>>

\* Every request of the batch has its cache, and the caches are allocated.
CachesReady == Len(cache) = Len(requests) /\ transfer = <<>>

\* The caller creates one cache per request, then calls decode.
NextBatch ==
    \/ transfer = <<>> /\ NewCacheCall(Len(requests), MaxPosition)
    \/ TransferStep
    \/ CachesReady /\ BatchSort
    \/ BatchAttention
    \/ BatchMoveDecode

SpecBatch == InitBatch /\ [][NextBatch]_vars

(***************************************************************************)
(* Kernel launches as functions of their arguments: RotaryEmbedding::launch *)
(* and the attention scores of one request.                                *)
(***************************************************************************)
\* Everything of the engine, which these functions do not touch.
engine == <<nlayers, layers, current, model_event, dev, transfer, compute, done, killed,
            next_event, calls, layer, params, requests, result, submitted, staged,
            recorded, reclaimed, cache, failed>>

\* No engine is constructed.
NoEngine ==
    /\ nlayers = 0
    /\ layers = <<>>
    /\ current = 0
    /\ model_event = 0
    /\ dev = <<>>
    /\ transfer = <<>>
    /\ compute = [c \in 1..MaxCalls |-> <<>>]
    /\ done = {}
    /\ killed = {}
    /\ next_event = 1
    /\ calls = 0
    /\ layer = 0
    /\ params = None
    /\ requests = <<>>
    /\ result = NoResult
    /\ submitted = <<>>
    /\ staged = <<>>
    /\ recorded = <<>>
    /\ reclaimed = {}
    /\ cache = <<>>
    /\ failed = "none"

\* A tensor view: shape, strides in elements, data type.
TensorView(shape, strides, dt) == [shape |-> shape, strides |-> strides, dt |-> dt]

RECURSIVE Product(_)
Product(q) == IF q = <<>> THEN 1 ELSE Head(q) * Product(Tail(q))

\* The strides of a densely packed tensor of a shape.
DenseStrides(shape) == [i \in 1..Len(shape) |-> Product(SubSeq(shape, i + 1, Len(shape)))]

\* Tensor::contiguous_len: how many trailing axes are densely packed.
RECURSIVE ContiguousFrom(_, _)
ContiguousFrom(t, i) ==
    IF i = 0 THEN 0
    ELSE IF t.strides[i] = DenseStrides(t.shape)[i] THEN 1 + ContiguousFrom(t, i - 1)
    ELSE 0

ContiguousLen(t) == ContiguousFrom(t, Len(t.shape))

\* Mutant of FitsBlock: a head as wide as the block is accepted.
FitsBlockInclusive(dh, block_size) == dh <= block_size

\* assert!(dh < self.block_size)
FitsBlock(dh, block_size) == dh < block_size

Panic(msg) == [panic |-> msg]

\* f.launch(grid, block, params, 0, stream)
Launch(grid, block, leading_dim) ==
    [panic |-> "none", grid |-> grid, block |-> block, leading_dim |-> leading_dim]

\* RotaryEmbedding::launch: the checks in the order of the code, then the launch.
RotaryEmbeddingLaunch(t, pos, block_size) ==
    IF Len(t.shape) # 3 THEN Panic("Invalid shape")
    ELSE LET n == t.shape[1]
             nh == t.shape[2]
             dh == t.shape[3]
         IN IF ~(ContiguousLen(t) >= 2) THEN Panic("contiguous_len")
            ELSE IF t.dt # "F16" THEN Panic("t.data_type")
            ELSE IF pos.dt # "U32" THEN Panic("pos.data_type")
            ELSE IF pos.shape # << n >> THEN Panic("pos.shape")
            ELSE IF ~FitsBlock(dh, block_size) THEN Panic("block_size")
            ELSE Launch(<< nh, n >>, dh \div 2, t.strides[1] \div 2)

\* The tensors rotary_embedding is tried on: [n, nh, dh] packed, with a padded
\* leading axis, with strided heads or strided elements, and shapes of 2 and 4 axes.
RotaryTensors ==
    LET dims == (1..MaxSeqLen) \X (1..MaxHeads) \X (1..MaxHeadDim) IN
    UNION { { TensorView(<< d[1], d[2], d[3] >>, << s1 * d[2] * s2 * d[3] * s3, s2 * d[3] * s3, s3 >>, dt)
                : s1 \in {1, 3}, s2 \in {1, 2}, s3 \in {1, 2} }
            \cup { TensorView(<< d[1], d[2] * d[3] >>, DenseStrides(<< d[1], d[2] * d[3] >>), dt),
                   TensorView(<< 1, d[1], d[2], d[3] >>,
                              DenseStrides(<< 1, d[1], d[2], d[3] >>), dt) }
          : d \in dims, dt \in {"F16", "F32"} }

\* The position tensors: U32 or not, of shape [n] or not.
PosTensors(n) ==
    { TensorView(shape, DenseStrides(shape), dt)
        : shape \in { << n >>, << n + 1 >>, << n, 1 >> }, dt \in {"U32", "U64"} }

BlockSizes == { MaxHeadDim - 1, MaxHeadDim, MaxHeadDim + 1 }

InitRotary ==
    \E t \in RotaryTensors : \E pos \in PosTensors(t.shape[1]) : \E bs \in BlockSizes :
        /\ NoEngine
        /\ pc = "rotary_embedding"
        /\ arg = [t |-> t, pos |-> pos, block_size |-> bs]
        /\ ret = <<>>

RotaryLaunch ==
    /\ pc = "rotary_embedding"
    /\ ret' = RotaryEmbeddingLaunch(arg.t, arg.pos, arg.block_size)
    /\ pc' = "launched"
    /\ UNCHANGED <<arg, engine>>

\* Line 271.
HeadGroup(nh, nkvh) == nh \div nkvh

\* Tensor::reshape: the element count of the new shape equals that of the old.
ReshapeFits(old, new) == Product(old) = Product(new)

\* Line 322.
ShapeAtt0(nkvh, head_group, seq_len, att_len) == << nkvh, head_group * seq_len, att_len >>

\* Mutant of ShapeAtt1: the scores keep the grouped shape.
ShapeAtt1Grouped(nkvh, head_group, seq_len, att_len) ==
    << nkvh, head_group * seq_len, att_len >>

\* Line 323.
ShapeAtt1(nkvh, head_group, seq_len, att_len) == << nkvh * head_group, seq_len, att_len >>

\* The place of row (a, b) of a tensor [A, B, ..] among its rows, and back.
RowIndex(shape, a, b) == a * shape[2] + b
RowAt(shape, i) == << i \div shape[2], i % shape[2] >>

\* fused_softmax(x[HEADS, Q, K]): in row r the positions > K - Q + r are masked;
\* the entries <<head, r, position>> that get a weight.
FusedSoftmax(shape) ==
    { << h, r, key >> \in (0..(shape[1] - 1)) \X (0..(shape[2] - 1)) \X (0..(shape[3] - 1)) :
        key <= shape[3] - shape[2] + r }

\* Lines 315-331 for one request: the shape of the scores handed to fused_softmax
\* and, for every query head and token, the KV head it is multiplied with and the
\* key positions that get a weight.
AttentionScores(nh, nkvh, dh, mp, r) ==
    LET head_group == HeadGroup(nh, nkvh)
        seq_len == r.seq_len
        att_len == AttLen(r)
        shape_q == << nkvh, head_group * seq_len, dh >>
        shape_att0 == ShapeAtt0(nkvh, head_group, seq_len, att_len)
        shape_att1 == ShapeAtt1(nkvh, head_group, seq_len, att_len)
    IN IF ~SliceInBounds(r.pos, seq_len, mp) THEN Panic("cat_slice")
       ELSE IF ~ReshapeFits(<< nh, seq_len, dh >>, shape_q) THEN Panic("reshape")
       ELSE IF ~SliceInBounds(0, att_len, mp) THEN Panic("att_slice")
       ELSE IF ~ReshapeFits(shape_att0, shape_att1) THEN Panic("reshape")
       ELSE IF ~FusedSoftmaxAccepts(att_len, mp) THEN Panic("fused_softmax")
       ELSE [panic |-> "none",
             shape |-> shape_att1,
             weights |->
                 { LET row == RowIndex(shape_att1, w[1], w[2])
                       grouped == RowAt(shape_att0, row)
                       query == RowAt(<< nh, seq_len >>, RowIndex(shape_q, grouped[1], grouped[2]))
                   IN [head |-> query[1], t |-> query[2], kv_head |-> grouped[1], key |-> w[3]]
                   : w \in FusedSoftmax(shape_att1) }]

InitScores ==
    \E nh \in 1..MaxHeads, nkvh \in 1..MaxHeads, dh \in {1, MaxHeadDim} :
    \E seq_len \in 1..MaxSeqLen, pos \in 0..MaxPos, mp \in MaxPosition..(MaxPos + MaxSeqLen) :
        /\ NoEngine
        /\ pc = "attention scores"
        /\ arg = [nh |-> nh, nkvh |-> nkvh, dh |-> dh, mp |-> mp,
                  r |-> Req(1, seq_len, pos, TRUE)]
        /\ ret = <<>>

AttentionScore ==
    /\ pc = "attention scores"
    /\ ret' = AttentionScores(arg.nh, arg.nkvh, arg.dh, arg.mp, arg.r)
    /\ pc' = "scored"
    /\ UNCHANGED <<arg, engine>>

InitKernel == InitRotary \/ InitScores

NextKernel == RotaryLaunch \/ AttentionScore

SpecKernel == InitKernel /\ [][NextKernel]_vars

(***************************************************************************)
(* The parameters of a model: Llama2::tensors and save.                    *)
(***************************************************************************)
\* The tensor an accessor of Llama2 returns; layer is None for the model's own.
Weight(name, lay) == [name |-> name, layer |-> lay]

\* The accessors called for one layer, in the order tensors and save call them.
LayerWeights(lay) ==
    << Weight("input_layernorm", lay), Weight("w_qkv", lay),
       Weight("self_attn_o_proj", lay), Weight("post_attention_layernorm", lay),
       Weight("mlp_gate_up", lay), Weight("mlp_down", lay) >>

\* Llama2::tensors
Tensors(m) ==
    << Weight("embed_tokens", None), Weight("embed_tokens", None) >>
    \o Concat([i \in 1..m.l |-> LayerWeights(i - 1)])
    \o << Weight("model_norm", None), Weight("lm_head", None) >>

\* The shape of each tensor, as documented on the accessors of Llama2.
ShapeOf(m, w) ==
    CASE w.name = "embed_tokens" -> << m.dv, m.d >>
      [] w.name = "input_layernorm" -> << m.d >>
      [] w.name = "w_qkv" -> << m.d + m.dkv + m.dkv, m.d >>
      [] w.name = "self_attn_o_proj" -> << m.d, m.d >>
      [] w.name = "post_attention_layernorm" -> << m.d >>
      [] w.name = "mlp_gate_up" -> << m.di + m.di, m.d >>
      [] w.name = "mlp_down" -> << m.d, m.di >>
      [] w.name = "model_norm" -> << m.d >>
      [] w.name = "lm_head" -> << m.dv, m.d >>

\* Tensor::bytes_size
BytesSize(m, w) == Product(ShapeOf(m, w)) * m.dt_size

\* Tensor::as_slice: the bytes of a tensor, each named by its tensor and place.
AsSlice(m, w) == [i \in 1..BytesSize(m, w) |-> [of |-> w, byte |-> i]]

\* The name under which save enters a tensor into the header.
Key(prefix, lay, suffix) == << prefix, lay, suffix >>

\* Lines 49-84: the header entries in the order they are inserted, each with the
\* accessor whose tensor it describes.
HeaderEntries(m) ==
    << [key |-> Key("model", None, "embed_tokens.weight"), w |-> Weight("embed_tokens", None)] >>
    \o Concat([i \in 1..m.l |->
         << [key |-> Key("model.layers", i - 1, "input_layernorm.weight"),
             w |-> Weight("input_layernorm", i - 1)],
            [key |-> Key("model.layers", i - 1, "self_attn.qkv_proj.weight"),
             w |-> Weight("w_qkv", i - 1)],
            [key |-> Key("model.layers", i - 1, "self_attn.o_proj.weight"),
             w |-> Weight("self_attn_o_proj", i - 1)],
            [key |-> Key("model.layers", i - 1, "post_attention_layernorm.weight"),
             w |-> Weight("post_attention_layernorm", i - 1)],
            [key |-> Key("model.layers", i - 1, "mlp.gate_up_proj.weight"),
             w |-> Weight("mlp_gate_up", i - 1)],
            [key |-> Key("model.layers", i - 1, "mlp.down_proj.weight"),
             w |-> Weight("mlp_down", i - 1)] >>])
    \o << [key |-> Key("model", None, "norm.weight"), w |-> Weight("model_norm", None)],
          [key |-> Key("lm_head", None, "weight"), w |-> Weight("lm_head", None)] >>

\* Lines 105-115: the tensors in the order their data is written.
DataWrites(m) ==
    << Weight("embed_tokens", None) >>
    \o Concat([i \in 1..m.l |-> LayerWeights(i - 1)])
    \o << Weight("model_norm", None), Weight("lm_head", None) >>

\* std::mem::size_of::<usize>() on a 64-bit target, and the bytes of a u64.
ALIGN == 8
PrefixLen == 8
Space == 32

\* Mutant of Aligned: the length is rounded down.
AlignedDown(len) == (len \div ALIGN) * ALIGN

\* (len + ALIGN - 1) & !(ALIGN - 1)
Aligned(len) == ((len + ALIGN - 1) \div ALIGN) * ALIGN

\* The n low bytes of x, the lowest first.
RECURSIVE LeBytes(_, _)
LeBytes(x, n) == IF n = 0 THEN <<>> ELSE << x % 256 >> \o LeBytes(x \div 256, n - 1)

\* u64::to_le_bytes
ToLeBytes(x) == LeBytes(x, PrefixLen)

\* Lines 86-101: the length prefix, the JSON text and its padding of spaces.
HeaderBytes(len) ==
    ToLeBytes(Aligned(len))
    \o [i \in 1..len |-> [of |-> "json", byte |-> i]]
    \o [i \in 1..(IF Aligned(len) > len THEN Aligned(len) - len ELSE 0) |-> Space]

\* The lengths of the JSON text save is tried on, around the multiples of ALIGN.
JsonLens == {1} \cup ((ALIGN - 1)..(ALIGN + 1)) \cup ((2 * ALIGN - 1)..(2 * ALIGN + 1))

\* The models save and tensors are tried on.
Models ==
    [l : 1..MaxLayers, d : 1..MaxHidden, dkv : {1, MaxHidden}, dv : {1, MaxHidden},
     di : {1, MaxHidden}, dt_size : {2, 4}]

InitSave ==
    \E m \in Models : \E len \in JsonLens : \E f \in {"tensors", "save"} :
        /\ m.dkv <= m.d
        /\ NoEngine
        /\ pc = f
        /\ arg = [model |-> m, json_len |-> len]
        /\ ret = [tensors |-> <<>>, offset |-> 0, header |-> <<>>, inserted |-> 0,
                  file |-> <<>>, written |-> 0]

\* Llama2::tensors
CollectTensors ==
    /\ pc = "tensors"
    /\ ret' = [ret EXCEPT !.tensors = Tensors(arg.model)]
    /\ pc' = "collected"
    /\ UNCHANGED <<arg, engine>>

\* HashMap::insert: the entry of the key is added or replaced.
Insert(map, key, value) ==
    [k \in DOMAIN map \cup {key} |-> IF k = key THEN value ELSE map[k]]

\* One header.tensors.insert(key, tensor_info(tensor)) of lines 49-84.
SaveInsert ==
    /\ pc = "save"
    /\ LET e == HeaderEntries(arg.model)[ret.inserted + 1]
           start == ret.offset
           end == ret.offset + BytesSize(arg.model, e.w)
       IN /\ ret' = [ret EXCEPT !.offset = end,
                                !.header = Insert(@, e.key, [data_offsets |-> << start, end >>]),
                                !.inserted = @ + 1]
          /\ pc' = IF ret.inserted + 1 < Len(HeaderEntries(arg.model)) THEN "save" ELSE "frame"
    /\ UNCHANGED <<arg, engine>>

\* Lines 86-104: the header is framed and written to the file.
SaveFrame ==
    /\ pc = "frame"
    /\ ret' = [ret EXCEPT !.file = HeaderBytes(arg.json_len)]
    /\ pc' = "data"
    /\ UNCHANGED <<arg, engine>>

\* One file.write_all(tensor.as_slice()) of lines 105-115.
SaveWrite ==
    /\ pc = "data"
    /\ ret' = [ret EXCEPT !.file = @ \o AsSlice(arg.model, DataWrites(arg.model)[ret.written + 1]),
                          !.written = @ + 1]
    /\ pc' = IF ret.written + 1 < Len(DataWrites(arg.model)) THEN "data" ELSE "saved"
    /\ UNCHANGED <<arg, engine>>

NextSave == CollectTensors \/ SaveInsert \/ SaveFrame \/ SaveWrite

SpecSave == InitSave /\ [][NextSave]_vars

(***************************************************************************)
(* Properties.                                                             *)
(***************************************************************************)
Range(q) == { q[k] : k \in DOMAIN q }

\* A decode call has returned (and none is running).
Returned == pc = "idle" /\ calls >= 1

\* The operation a compute stream is executing reads weights of a slot.
ReadsSlot(c) == compute[c] # <<>> /\ Reads(Head(compute[c])) # {}

\* Copies into `slot` submitted to the transfer stream and not yet completed.
CopiesInto(slot) == { op \in Range(transfer) : op.k = "h2d" /\ op.slot = slot }

\* C1: the assertion of LayersParameters::sync never fails: whatever the layer
\* count, the window size and the number of calls, the slot at the cursor holds
\* the layer sync is asked for.
C1_SyncAssertionHolds == pc # "panic"

\* C1 witness: the first sync of a second call, on a window that does not divide
\* the layer count, so that the cursor starts the call away from slot 0.
C1_Witness ==
    /\ calls = 2 /\ pc = "layer" /\ layer = 0
    /\ nlayers = 3 /\ W = 2 /\ params = 1

\* C2: no compute stream executes an operation that reads the weights of a slot
\* while a host-to-device copy into that slot is submitted and not completed.
C2_NoReadDuringCopy ==
    \A c \in 1..MaxCalls :
        ReadsSlot(c) => CopiesInto(Head(compute[c]).slot) = {}

\* C3: the weights a compute stream reads in iteration l are those of layer l,
\* as they are when every layer stays resident.
C3_ComputeReadsItsLayer ==
    \A c \in 1..MaxCalls :
        ReadsSlot(c) =>
            LET op == Head(compute[c]) IN
            \A t \in Reads(op) : dev[op.slot + 1][t] = op.layer

\* The requests of a batch whose decode flag is set, in batch order.
DecodeEligible(reqs) == SelectSeq(reqs, LAMBDA r : r.decode)

\* The row of the last token of a request.
FinalRow(r) == [id |-> r.id, t |-> r.seq_len - 1]

\* C4: decode yields exactly one row per request whose decode flag is set, the row
\* of its last token, in the order of those requests after the sort.
C4_OneRowPerDecodeRequest ==
    Returned =>
        result.rows = [j \in 1..Len(DecodeEligible(requests)) |->
                          FinalRow(DecodeEligible(requests)[j])]

\* C5: the ids handed to the sampler are exactly the ids of the requests whose
\* decode flag is set, in sorted order, as many as there are logits rows.
C5_SamplerIdsAreDecodeIds ==
    (Returned /\ result.path = "sample") =>
        /\ result.ids = [j \in 1..Len(DecodeEligible(requests)) |->
                            DecodeEligible(requests)[j].id]
        /\ Len(result.ids) = Len(result.rows)

\* The call submitted the work of logits: the wait for the model-global event,
\* the final rms_norm or the lm_head product.
LogitsSubmitted ==
    \E op \in Range(submitted) :
        \/ op.k \in {"model_norm", "lm_head"}
        \/ op.k = "wait" /\ op.ev = model_event

\* C6: decode returns the empty result, with no wait for the model-global event
\* and no final rms_norm or lm_head, exactly when no request has its decode flag set.
C6_EmptyIffNoDecode ==
    Returned =>
        ((result.path = "empty" /\ ~LogitsSubmitted)
            <=> (\A i \in DOMAIN requests : ~requests[i].decode))

\* Work of the running or last call that has not completed (the releases issued
\* as the call's locals go out of scope are not work the call submitted).
PendingOfCall ==
    { op \in Range(transfer) \cup Range(compute[calls]) :
        op.call = calls /\ op.k # "free" }

\* C7 as stated: when a decode call returns, on either path, every operation it
\* submitted to the compute stream and to the transfer stream has completed.
C7_ReturnAfterAllWork == Returned => PendingOfCall = {}

\* C7 amended: when a decode call returns on the sampling path, every operation
\* it submitted to the compute stream has completed, and so has every transfer
\* operation except the refills of slots that no sync has consumed since.
C7_SamplePathWorkDone ==
    (Returned /\ result.path = "sample") =>
        /\ compute[calls] = <<>>
        /\ \A op \in Range(transfer) :
               op.k # "free" =>
                   /\ op.k \in {"h2d", "record"}
                   /\ op.slot # None
                   /\ staged[op.slot + 1].syncs # None
                   /\ staged[op.slot + 1].syncs < W

\* C7 witness: a call has returned on the sampling path while a refill it staged
\* for the next call is still on the transfer stream.
C7_Witness ==
    /\ Returned /\ result.path = "sample"
    /\ \E op \in Range(transfer) : op.k = "h2d"

\* The last wait of a slot event submitted before position k of the call's log.
LastSlotWait(k) ==
    LET js == { j \in 1..(k - 1) : submitted[j].k = "wait" /\ submitted[j].slot # None }
    IN IF js = {} THEN 0 ELSE CHOOSE j \in js : \A j2 \in js : j2 <= j

\* C8: in every layer iteration the wait for the event of the slot sync returned
\* is submitted before the kernels that read that slot, and the event is the one
\* recorded by the latest fill of the slot.
C8_WaitBeforeUse ==
    /\ \A k \in DOMAIN submitted :
           Reads(submitted[k]) # {} =>
               /\ LastSlotWait(k) # 0
               /\ submitted[LastSlotWait(k)].slot = submitted[k].slot
    /\ pc = "layer" =>
           submitted[Len(submitted)] = Wait(recorded[params + 1], params, calls)

\* C8 witness: the kernels of a layer were submitted on a slot that a load had
\* refilled, behind the wait for the event of that refill.
C8_Witness ==
    /\ pc = "load" /\ layer >= 1
    /\ recorded[params + 1] > W
    /\ submitted[Len(submitted)].k = "after_att"
    /\ submitted[Len(submitted) - 3] = Wait(recorded[params + 1], params, calls)

\* C9: with W = L every load is a no-op: after construction no weight copy is
\* submitted and no slot changes its layer or its event.
C9_FullWindowNeverReloads ==
    W = nlayers =>
        /\ layers = [i \in 1..W |-> [layer |-> i - 1, sync_event |-> i]]
        /\ next_event = W + 1 + calls
        /\ \A op \in Range(transfer) : op.k = "h2d" => op.call = 0

\* C9 witness: a fully resident window of two or more layers at the end of the
\* layer loop of a second call.
C9_Witness == W = nlayers /\ nlayers >= 2 /\ calls = 2 /\ pc = "tail"

\* A step of load.
LoadStep == pc = "load" /\ pc' = "sync"

\* C10: load(l) leaves slot (current + W - 1) mod W holding layer (l + W - 1) mod L
\* and changes no other slot nor the cursor; the slot is consumed by the W-th sync
\* after that load, which asks for exactly the layer staged.
C10_LoadStagesAhead ==
    /\ [][LoadStep =>
            LET i == (current + W - 1) % W IN
            /\ layers'[i + 1].layer = (layer + W - 1) % nlayers
            /\ \A j \in 1..W : j # i + 1 => layers'[j] = layers[j]
            /\ staged'[i + 1].syncs = 0
            /\ current' = current]_vars
    /\ [](\A j \in 1..W : staged[j].syncs # None => staged[j].syncs <= W)
    /\ [](pc = "layer" =>
            /\ layers[params + 1].layer = layer
            /\ staged[params + 1].syncs # None =>
                   /\ staged[params + 1].syncs = W
                   /\ staged[params + 1].layer = layer)

\* C10 witness: a sync has consumed a slot that a load refilled W - 1 syncs earlier,
\* on a window of at least two slots smaller than the model.
C10_Witness ==
    /\ pc = "layer" /\ W >= 2 /\ W < nlayers
    /\ staged[params + 1].syncs = W
    /\ recorded[params + 1] > W

\* C15: every transient tensor of a decode call (x0, x1, qkv, q_buf, att_buf,
\* gate_up, pos, logits) is allocated on the compute stream, so that no call of
\* decode ever submits an allocation to the transfer stream (the caches of
\* new_cache are not transient tensors of a call).
C15_AllOnComputeStream ==
    \A op \in Range(transfer) : op.k = "malloc" => op.call = None

\* C16: no transient buffer of a decode call is reclaimed while an operation that
\* uses it is still pending on a stream, on the sampling path and on the
\* empty-result path.
C16_NoReclaimWhilePending ==
    /\ \A c \in 1..MaxCalls : \A op \in Range(compute[c]) :
           \A b \in Uses(op) : <<c, b>> \notin reclaimed
    /\ \A op \in Range(transfer) :
           \A b \in Uses(op) : <<op.call, b>> \notin reclaimed

\* The batch has been sorted (data path).
Sorted == pc \in {"attention", "failed", "move", "done"}

\* C11: after the sort every request with seq_len > 1 precedes every request with
\* seq_len = 1, in the order used for packing, attention and output.
C11_PrefillFirst ==
    Sorted =>
        \A i, j \in DOMAIN requests :
            (requests[i].seq_len > 1 /\ requests[j].seq_len = 1) => i < j

\* C11 witness: the sort has moved a request with seq_len > 1 ahead of a purely
\* decoding request that came before it in the batch as submitted.
C11_Witness ==
    /\ Sorted
    /\ \E i, j \in DOMAIN requests :
           /\ i < j /\ requests[i].id > requests[j].id
           /\ requests[i].seq_len > 1 /\ requests[j].seq_len = 1

\* C12: after the sort every purely decoding request (seq_len = 1) precedes every
\* request with seq_len > 1.
C12_PurelyDecodeFirst ==
    Sorted =>
        \A i, j \in DOMAIN requests :
            (requests[i].seq_len = 1 /\ requests[j].seq_len > 1) => i < j

\* req of the i-th request: the sum of seq_len of the requests before it.
ReqOffset(i) == SumSeqLen(SubSeq(requests, 1, i - 1))

\* C13: after a pass, for every request r and every layer l, row pos + t of r's
\* k cache (v cache) of layer l holds row req + t of the packed k (v) of layer l,
\* for t in [0, seq_len), req being the sum of seq_len of the requests before r.
C13_CacheRows ==
    pc \in {"move", "done"} =>
        \A i \in DOMAIN requests : \A l \in 0..(nlayers - 1) :
            \A t \in 0..(requests[i].seq_len - 1) :
                LET c == cache[requests[i].id][l + 1]
                    p == requests[i].pos + t + 1
                IN /\ c.k[p] = CacheRow("k", l, ReqOffset(i) + t)
                   /\ c.v[p] = CacheRow("v", l, ReqOffset(i) + t)

\* C13 witness: a pass over two layers has ended, on a batch whose first request
\* holds two tokens and whose second request starts at a position other than 0.
C13_Witness ==
    /\ pc = "done" /\ nlayers >= 2 /\ Len(requests) >= 2
    /\ requests[1].seq_len = 2 /\ requests[2].pos = MaxPos
    /\ cache[requests[2].id][2].v[MaxPos + 1] = CacheRow("v", 1, 2)

\* Some request of the batch reaches beyond max_position_embeddings.
BeyondMaxPosition == \E i \in DOMAIN requests : AttLen(requests[i]) > MaxPosition

\* C14 as stated: a request with pos + seq_len = MP is processed without error; one
\* with pos + seq_len > MP fails, and the step that rejects it is fused_softmax.
C14_RejectedByFusedSoftmax ==
    pc \in {"failed", "move", "done"} =>
        IF BeyondMaxPosition
        THEN pc = "failed" /\ failed = "fused_softmax"
        ELSE failed = "none"

\* C14 amended: a request with pos + seq_len = MP is processed without error; one
\* with pos + seq_len > MP fails in the attention loop of layer 0, and the step
\* that rejects it is the slice [pos, pos + seq_len) of its cache, before any of
\* its rows is written and before fused_softmax.
C14_RejectedByCacheSlice ==
    pc \in {"failed", "move", "done"} =>
        IF BeyondMaxPosition
        THEN /\ pc = "failed" /\ failed = "cat_slice" /\ layer = 0
             /\ \E i \in DOMAIN requests :
                    /\ AttLen(requests[i]) > MaxPosition
                    /\ \A j \in 1..(i - 1) : AttLen(requests[j]) <= MaxPosition
                    /\ cache[requests[i].id] = NewCache(nlayers, MaxPosition)
        ELSE failed = "none"

\* C14 witness: a request that ends exactly at max_position_embeddings was
\* processed, and the next request, which reaches beyond it, was rejected.
C14_Witness ==
    /\ pc = "failed" /\ failed = "cat_slice" /\ Len(requests) >= 2
    /\ AttLen(requests[1]) = MaxPosition
    /\ cache[requests[1].id][1].k[MaxPosition]
           = CacheRow("k", 0, requests[1].seq_len - 1)
    /\ AttLen(requests[2]) > MaxPosition

\* C17: when the first request in sorted order decodes, the slice move_decode
\* returns has one row per request that decodes, row j being the row of the last
\* token of the j-th of them; throughout the scan dst <= src; a copy is issued
\* only when dst < src; no copy overwrites a row a later copy reads.
C17_MoveDecodeCompacts ==
    (pc = "done" /\ TakesSamplePath(requests)) =>
        LET m == MoveDecode(requests)
            elig == DecodeEligible(requests)
        IN /\ result.rows = [j \in 1..Len(elig) |-> FinalRow(elig[j])]
           /\ m.end - m.begin = Len(elig)
           /\ \A k \in 0..(Len(requests) - 1) :
                  ScanDst(requests, k) <= ScanSrc(requests, k)
           /\ \A k \in 1..(Len(requests) - 1) :
                  (requests[k + 1].decode
                      /\ ScanDst(requests, k) < ScanSrc(requests, k))
                  <=> <<ScanDst(requests, k), ScanSrc(requests, k)>> \in Range(m.copies)
           /\ \A a \in DOMAIN m.copies :
                  /\ m.copies[a][1] < m.copies[a][2]
                  /\ \A b \in DOMAIN m.copies :
                         a < b => m.copies[a][1] # m.copies[b][2]

\* C17 witness: move_decode has issued two copies and returned three rows.
C17_Witness ==
    /\ pc = "done" /\ TakesSamplePath(requests)
    /\ Len(MoveDecode(requests).copies) = 2
    /\ Len(result.rows) = 3

\* Refills submitted to the transfer stream and not completed: a refill has
\* completed when the event recorded behind its copies has.
InFlightRefills ==
    { k \in DOMAIN transfer :
        transfer[k].k = "record" /\ transfer[k].slot # None /\ transfer[k].call >= 1 }

\* The refills in flight that no sync has consumed yet.
AwaitedRefills ==
    { k \in InFlightRefills :
        /\ transfer[k].ev = layers[transfer[k].slot + 1].sync_event
        /\ staged[transfer[k].slot + 1].syncs < W }

\* The slot a sync has just taken was staged W - 1 layers earlier: the sync is the
\* W-th since the load that staged it.
ConsumedAfterWLayers ==
    (pc \in {"layer", "panic"} /\ staged[params + 1].syncs # None) =>
        staged[params + 1].syncs = W

\* C18 as stated: at every moment at most W refills are submitted to the transfer
\* stream and not completed, and a refill submitted by load(l) has W - 1 compute
\* layers between its submission and the sync that consumes it.
C18_AtMostWInFlight ==
    /\ Cardinality(InFlightRefills) <= W
    /\ ConsumedAfterWLayers

\* C18 amended: the refills in flight are not bounded by W, only by the number of
\* loads the host has run ahead of the device (at most L per call); at most W of
\* them, one per slot, have not been consumed by a sync; a refill submitted by
\* load(l) has W - 1 layers submitted between it and the sync that consumes it.
C18_AwaitedAtMostW ==
    /\ Cardinality(InFlightRefills) <= calls * nlayers
    /\ Cardinality(AwaitedRefills) <= W
    /\ ConsumedAfterWLayers

\* C18 witness: more than W refills are in flight when a sync consumes a slot
\* that a load of this call refilled.
C18_Witness ==
    /\ Cardinality(InFlightRefills) > W
    /\ pc = "layer" /\ staged[params + 1].syncs = W
    /\ recorded[params + 1] > W

\* The operations a refill of slot i with layer lay appends to the transfer stream.
RefillOps(i, lay, ev) ==
    << H2D(i, 1, lay, calls), H2D(i, 2, lay, calls), H2D(i, 3, lay, calls),
       H2D(i, 4, lay, calls), H2D(i, 5, lay, calls), H2D(i, 6, lay, calls),
       Record(ev, i, calls) >>

\* C19 as stated: with W = 1 and L >= 2 the load of every layer iteration of every
\* call, layer 0 of the first call included, issues a copy of the layer's six tensors.
C19_EveryLoadCopies ==
    [][(LoadStep /\ W = 1 /\ nlayers >= 2) =>
          transfer' = transfer \o RefillOps(0, layer, next_event)]_vars

\* C19 amended: with W = 1 and L >= 2 the load of every layer iteration issues a
\* copy of the layer's six tensors, except layer 0 of the first call after
\* construction, which finds layer 0 in the slot and issues nothing.
C19_EveryLoadButFirstCopies ==
    [][(LoadStep /\ W = 1 /\ nlayers >= 2) =>
          IF calls = 1 /\ layer = 0
          THEN transfer' = transfer /\ layers' = layers
          ELSE transfer' = transfer \o RefillOps(0, layer, next_event)]_vars

\* C19 witness: with W = 1 the load of layer 0 of a second call has issued a copy.
C19_Witness ==
    /\ W = 1 /\ nlayers >= 2 /\ calls = 2 /\ pc = "sync" /\ layer = 0
    /\ Len(transfer) = 7 /\ transfer[7] = Record(layers[1].sync_event, 0, 2)
    /\ transfer[1] = H2D(0, 1, 0, 2)

\* C20: a refill appends the six copies and then the record of the slot's new
\* event to the transfer stream, destroys the previous event and sets the layer
\* tag; when the slot already holds the layer, load issues nothing and leaves
\* event and tag as they are.
C20_RefillRecordsAfterCopies ==
    [][LoadStep =>
          LET i == (current + W - 1) % W
              lay == (layer + W - 1) % nlayers
              old == layers[i + 1]
              new == layers'[i + 1]
          IN IF old.layer = lay
             THEN /\ transfer' = transfer /\ layers' = layers
                  /\ killed' = killed /\ next_event' = next_event
             ELSE /\ transfer' = transfer \o RefillOps(i, lay, new.sync_event)
                  /\ new.sync_event # old.sync_event
                  /\ new.sync_event \notin done \cup killed
                  /\ killed' = killed \cup {old.sync_event}
                  /\ new.layer = lay]_vars

\* C20 witness: a load has just refilled a slot: the transfer stream holds the six
\* copies and the record of the slot's event, and the previous event is destroyed.
C20_Witness ==
    /\ pc = "sync" /\ W >= 2 /\ Len(transfer) = 7
    /\ killed # {}
    /\ transfer[7].k = "record"
    /\ transfer[7].ev = layers[transfer[7].slot + 1].sync_event
    /\ transfer[6] = H2D(transfer[7].slot, 6, layers[transfer[7].slot + 1].layer, calls)

\* C24: the cursor always satisfies 0 <= current < W; between decode calls and
\* right after construction the slot at (current + k) mod W holds layer k for
\* every k in [0, W - 2], and the remaining slot holds layer W - 1 before the first
\* call and layer L - 1 after a completed call.
C24_CursorAndWindow ==
    /\ current \in 0..(W - 1)
    /\ pc = "idle" =>
          /\ \A k \in 0..(W - 2) : layers[((current + k) % W) + 1].layer = k
          /\ layers[((current + W - 1) % W) + 1].layer =
                 IF calls = 0 THEN W - 1 ELSE nlayers - 1

\* C24 witness: a call has returned on a window of two slots for three layers: the
\* cursor stands on slot 1, which holds layer 0, and slot 0 holds layer 2.
C24_Witness ==
    /\ pc = "idle" /\ calls = 1 /\ W = 2 /\ nlayers = 3 /\ current = 1
    /\ layers[2].layer = 0 /\ layers[1].layer = 2

\* The host step that leaves the tail of decode.
TailStep == pc = "tail" /\ pc' # "tail"

\* C26: a decode call without requests never returns a result: it goes through
\* the load and sync of all L layers, which moves the cursor by L mod W, and then
\* fails at requests[0].
C26_EmptyBatchFails ==
    /\ [](requests = EmptyBatch /\ calls >= 1 => pc # "idle" /\ result = NoResult)
    /\ [](pc = "failed" /\ requests = EmptyBatch =>
                           /\ failed = "requests[0]"
                           /\ layer = nlayers
                           /\ current = (calls * nlayers) % W
                           /\ Cardinality({ k \in DOMAIN submitted :
                                  submitted[k].k = "before_att" }) = nlayers)
    /\ [][(TailStep /\ requests = EmptyBatch) => pc' = "failed"]_vars

\* C26 witness: a call without requests has failed at requests[0] after it went
\* through the three layers on a window of two slots, which left the cursor on 1.
C26_Witness ==
    /\ pc = "failed" /\ failed = "requests[0]" /\ requests = EmptyBatch
    /\ calls = 1 /\ nlayers = 3 /\ W = 2 /\ current = 1 /\ layer = 3

\* C25: the attention of a layer changes no cache row other than the positions
\* [pos, pos + seq_len) of the k and v cache of that layer of each request, and
\* what it writes there are the request's own rows of the packed k and v.
C25_OnlyOwnCacheRows ==
    [][pc = "attention" =>
          /\ DOMAIN cache' = DOMAIN cache
          /\ \A i \in 1..Len(requests) : \A l \in 1..nlayers :
             \A t \in {"k", "v"} : \A p \in 1..MaxPosition :
                 LET r == requests[i] IN
                 cache'[r.id][l][t][p] # cache[r.id][l][t][p] =>
                     /\ l = layer + 1
                     /\ p - 1 \in r.pos..(r.pos + r.seq_len - 1)
                     /\ cache'[r.id][l][t][p] =
                            CacheRow(t, layer, ReqOffset(i) + (p - 1 - r.pos))]_vars

\* C25 witness: after the attention of layer 0 on a batch of two requests, the
\* first at position MaxPos: its row MaxPos of layer 0 is written, its row 0 and
\* its rows of layer 1 are not.
C25_Witness ==
    /\ pc = "attention" /\ layer = 1 /\ Len(requests) >= 2
    /\ requests[1].pos = MaxPos
    /\ cache[requests[1].id][1].k[MaxPos + 1] = CacheRow("k", 0, 0)
    /\ cache[requests[1].id][1].k[1] = Unwritten
    /\ cache[requests[1].id][2].k[MaxPos + 1] = Unwritten

\* The rows of a slice, and the tokens token_embed packed into them.
RowsOf(s) == s.from..(s.from + s.take - 1)
TokensOf(reqs, s) == SubSeq(PackedRows(reqs), s.from + 1, s.from + s.take)

\* A cache with each written row named by the token whose k or v it holds.
ByToken(reqs, rows) ==
    [p \in DOMAIN rows |->
        IF rows[p] = Unwritten THEN Unwritten
        ELSE [tensor |-> rows[p].tensor, layer |-> rows[p].layer,
              token |-> PackedRows(reqs)[rows[p].row + 1]]]

\* The attention of layer lay on request r as the only request of a batch.
Alone(r, lay) ==
    AttentionLoop(<< r >>, 0, r.seq_len, lay, [i \in DOMAIN cache |-> NewCache(nlayers, MaxPosition)])

\* C22: in a layer the row ranges [req, req + seq_len) of the requests are pairwise
\* disjoint and cover [0, NT) in the order of the packed tokens; the attention of
\* a request reads and writes its own rows and its own cache only, so what it
\* launches and what it leaves in the cache is what it would be were the request
\* alone in the batch.
C22_OwnRowsOnly ==
    (pc \in {"attention", "move", "done"} /\ layer >= 1) =>
        /\ Len(submitted) = Len(requests)
        /\ \A i, j \in DOMAIN submitted :
               i # j => RowsOf(submitted[i].req_slice) \cap RowsOf(submitted[j].req_slice) = {}
        /\ UNION { RowsOf(submitted[i].req_slice) : i \in DOMAIN submitted }
               = 0..(SumSeqLen(requests) - 1)
        /\ \A i \in DOMAIN submitted :
               LET a == submitted[i]
                   r == requests[i]
                   alone == Alone(r, layer - 1)
               IN /\ a.id = r.id /\ a.cache = r.id
                  /\ a.req_slice.from = ReqOffset(i)
                  /\ TokensOf(requests, a.req_slice) = PackedRows(<< r >>)
                  /\ [a EXCEPT !.req_slice.from = 0] = alone.launched[1]
                  /\ \A t \in {"k", "v"} :
                         ByToken(requests, cache[r.id][layer][t])
                             = ByToken(<< r >>, alone.cache[r.id][layer][t])

\* C22 witness: a layer has run on a batch of three requests of two tokens and one
\* token; the second request has rows [2, 4) and the third row 4.
C22_Witness ==
    /\ pc = "attention" /\ layer = 1 /\ Len(submitted) = 3
    /\ submitted[2].req_slice = Slice(2, 2)
    /\ submitted[3].req_slice = Slice(4, 1)
    /\ submitted[3].cat_slice = Slice(MaxPos, 1)

\* C21: the scores of a request handed to fused_softmax have the shape
\* [NH, seq_len, att_len] with att_len - seq_len = pos, and query row t of every
\* query head h, multiplied with KV head h / head_group, gets a weight on the key
\* positions 0..pos + t and on no other.
C21_CausalMask ==
    (pc = "scored" /\ ret.panic = "none") =>
        LET r == arg.r IN
        /\ ret.shape = << arg.nh, r.seq_len, r.pos + r.seq_len >>
        /\ ret.shape[3] - ret.shape[2] = r.pos
        /\ ret.weights =
               UNION { { [head |-> h, t |-> t, kv_head |-> h \div (arg.nh \div arg.nkvh),
                          key |-> key] : h \in 0..(arg.nh - 1), key \in 0..(r.pos + t) }
                       : t \in 0..(r.seq_len - 1) }

\* C21 witness: two tokens at position 1, four query heads on two KV heads: row 0
\* of head 3 sees key 1 of KV head 1 and not key 2.
C21_Witness ==
    /\ pc = "scored" /\ ret.panic = "none"
    /\ arg.nh = 4 /\ arg.nkvh = 2 /\ arg.r.seq_len = 2 /\ arg.r.pos = 1
    /\ [head |-> 3, t |-> 0, kv_head |-> 1, key |-> 1] \in ret.weights
    /\ [head |-> 3, t |-> 0, kv_head |-> 1, key |-> 2] \notin ret.weights

\* The arguments RotaryEmbedding::launch accepts.
RotaryAccepts ==
    /\ Len(arg.t.shape) = 3
    /\ arg.t.dt = "F16"
    /\ arg.t.strides[3] = 1 /\ arg.t.strides[2] = arg.t.shape[3]
    /\ arg.pos.dt = "U32"
    /\ arg.pos.shape = << arg.t.shape[1] >>
    /\ arg.t.shape[3] < arg.block_size

\* C23: RotaryEmbedding::launch aborts unless t is [n, nh, dh] of F16 with its
\* last two axes contiguous, pos is U32 of shape [n] and dh < block_size; when all
\* hold it launches a grid of (nh, n) blocks of dh / 2 threads with the leading
\* dimension strides[0] / 2.
C23_RotaryLaunch ==
    pc = "launched" =>
        IF RotaryAccepts
        THEN ret = [panic |-> "none",
                    grid |-> << arg.t.shape[2], arg.t.shape[1] >>,
                    block |-> arg.t.shape[3] \div 2,
                    leading_dim |-> arg.t.strides[1] \div 2]
        ELSE ret.panic # "none" /\ DOMAIN ret = {"panic"}

\* C23 witness: a launch on the q part of a wider tensor (leading stride three
\* times the row) with two heads of 3 elements: blocks of one thread.
C23_Witness ==
    /\ pc = "launched" /\ ret.panic = "none"
    /\ arg.t.shape[2] = 2 /\ arg.t.shape[3] = 3
    /\ arg.t.strides[1] = 3 * arg.t.shape[2] * arg.t.shape[3]
    /\ ret.block = 1 /\ ret.grid = << 2, arg.t.shape[1] >> /\ ret.leading_dim = 9

\* The weight tensors of a model of l layers, each once, in the order of C27.
ExpectedTensors(l) ==
    << [name |-> "embed_tokens", layer |-> None] >>
    \o Concat([i \in 1..l |->
         [j \in 1..6 |->
            [name |-> << "input_layernorm", "w_qkv", "self_attn_o_proj",
                         "post_attention_layernorm", "mlp_gate_up", "mlp_down" >>[j],
             layer |-> i - 1]]])
    \o << [name |-> "model_norm", layer |-> None], [name |-> "lm_head", layer |-> None] >>

\* C27: Llama2::tensors returns 6 * L + 3 tensors, each weight tensor of the model
\* once, in the order embed_tokens, the six tensors of each layer, model_norm,
\* lm_head.
C27_TensorsOnce ==
    pc = "collected" =>
        /\ Len(ret.tensors) = 6 * arg.model.l + 3
        /\ \A i, j \in DOMAIN ret.tensors : i # j => ret.tensors[i] # ret.tensors[j]
        /\ ret.tensors = ExpectedTensors(arg.model.l)

\* The tensor a name of the header stands for.
TensorOfKey(key) ==
    [name |-> CASE key[3] = "embed_tokens.weight" -> "embed_tokens"
                [] key[3] = "input_layernorm.weight" -> "input_layernorm"
                [] key[3] = "self_attn.qkv_proj.weight" -> "w_qkv"
                [] key[3] = "self_attn.o_proj.weight" -> "self_attn_o_proj"
                [] key[3] = "post_attention_layernorm.weight" -> "post_attention_layernorm"
                [] key[3] = "mlp.gate_up_proj.weight" -> "mlp_gate_up"
                [] key[3] = "mlp.down_proj.weight" -> "mlp_down"
                [] key[3] = "norm.weight" -> "model_norm"
                [] key[3] = "weight" -> "lm_head",
     layer |-> key[2]]

\* The number a sequence of bytes stands for, the lowest byte first.
RECURSIVE FromLeBytes(_)
FromLeBytes(bytes) ==
    IF bytes = <<>> THEN 0 ELSE Head(bytes) + 256 * FromLeBytes(Tail(bytes))

\* The length prefix of the file, and where its tensor data begins.
LengthPrefix == FromLeBytes(SubSeq(ret.file, 1, 8))
DataStart == 8 + LengthPrefix

\* C28: in the saved file the data_offsets of the 6 * L + 3 tensors are
\* non-overlapping ranges that follow each other from 0, each as long as its
\* tensor; the bytes of every tensor lie at its offsets behind the header; the
\* length prefix is a multiple of 8 and is the length of the JSON text plus its
\* padding of spaces.
C28_SavedLayout ==
    pc = "saved" =>
        LET m == arg.model
            h == ret.header
            range(k) == h[k].data_offsets[1]..(h[k].data_offsets[2] - 1)
        IN /\ LengthPrefix % 8 = 0
           /\ LengthPrefix >= arg.json_len
           /\ Len(ret.file) >= DataStart
           /\ \A i \in 1..LengthPrefix :
                  ret.file[8 + i] = IF i <= arg.json_len
                                    THEN [of |-> "json", byte |-> i] ELSE 32
           /\ Cardinality(DOMAIN h) = 6 * m.l + 3
           /\ UNION { range(k) : k \in DOMAIN h } = 0..(Len(ret.file) - DataStart - 1)
           /\ \A k \in DOMAIN h :
                  /\ h[k].data_offsets[2] - h[k].data_offsets[1] = BytesSize(m, TensorOfKey(k))
                  /\ h[k].data_offsets[1] = 0
                         \/ \E k2 \in DOMAIN h : h[k2].data_offsets[2] = h[k].data_offsets[1]
                  /\ SubSeq(ret.file, DataStart + h[k].data_offsets[1] + 1,
                            DataStart + h[k].data_offsets[2])
                         = [i \in 1..BytesSize(m, TensorOfKey(k)) |->
                               [of |-> TensorOfKey(k), byte |-> i]]
           /\ \A k1, k2 \in DOMAIN h : k1 # k2 => range(k1) \cap range(k2) = {}

\* C28 witness: a model of two layers is saved with a JSON text of 9 bytes: the
\* prefix is 16, seven spaces follow the text, and the last byte of the file is the
\* last byte of lm_head, whose range ends where the data ends.
C28_Witness ==
    /\ pc = "saved" /\ arg.model.l = 2 /\ arg.json_len = 9
    /\ LengthPrefix = 16 /\ ret.file[8 + 16] = 32 /\ ret.file[8 + 10] = 32
    /\ ret.header[<< "lm_head", None, "weight" >>].data_offsets[2] = Len(ret.file) - 24
    /\ ret.header[<< "model.layers", 1, "self_attn.qkv_proj.weight" >>].data_offsets[1] > 0
    /\ ret.file[Len(ret.file)].of = [name |-> "lm_head", layer |-> None]
====
